---- MODULE Spec2Model ----
(***************************************************************************)
(* Model of the weather command line (weather_cli/cli.py): argument        *)
(* parsing, the geocoding call, the forecast call, the two formatters and  *)
(* the driver main().                                                      *)
(*                                                                         *)
(* Python values that may be None are tagged records: [t |-> "none"],      *)
(* [t |-> "str", v |-> <<chars>>], [t |-> "int", v |-> n].  Text that the  *)
(* program trims or builds from numbers is a sequence of one-character     *)
(* strings.  JSON objects are records; an absent key is absent from the    *)
(* record's DOMAIN.                                                        *)
(***************************************************************************)
EXTENDS Integers, Sequences, FiniteSets, TLC

VARIABLES
    pc,         \* position of main (or of a formatter called on its own)
    args,       \* the parsed command line: place, days, unit, lang
    where,      \* what geocode returned: None or the location dict
    data,       \* the forecast payload fetch_weather returned
    inflight,   \* requests sent and not yet answered
    requests,   \* every request sent, in order
    responses,  \* every answer urlopen met, in order
    stdout,     \* lines printed to standard output
    stderr,     \* lines printed to standard error
    returned,   \* <<>> until main returns, then <<value>>
    raised,     \* the exception that left main, or "none"
    events,     \* the I/O steps of the run, in order
    call,       \* arguments of a formatter called on its own
    result      \* what that call returned

vars == <<pc, args, where, data, inflight, requests, responses, stdout, stderr,
          returned, raised, events, call, result>>

(* ------------------------------ bounds -------------------------------- *)

\* --days ranges over -DaysBelow .. MaxForecastDays + DaysAbove
DaysBelow == 2
DaysAbove == 2
\* longest array of a daily payload handed to format_daily on its own
MaxLen == 2
\* longest array of a daily payload the forecast service answers with in a run
RunLen == 1
\* weather codes handed to format_current range over -CodesBelow .. 99 + CodesAbove
CodesBelow == 2
CodesAbove == 2

(* ------------------------- program constants -------------------------- *)

MinForecastDays == 1
MaxForecastDays == 16
DefaultCode == -1
HighestCode == 99

(* --------------------------- Python values ---------------------------- *)

PyNone == [t |-> "none"]
PyStr(s) == [t |-> "str", v |-> s]
PyInt(n) == [t |-> "int", v |-> n]

Min(a, b) == IF a < b THEN a ELSE b
Max(a, b) == IF a > b THEN a ELSE b

Digit(d) == <<"0", "1", "2", "3", "4", "5", "6", "7", "8", "9">>[d + 1]

RECURSIVE NatToStr(_)
NatToStr(n) == IF n < 10 THEN <<Digit(n)>>
               ELSE NatToStr(n \div 10) \o <<Digit(n % 10)>>

\* str(n) / f"{n}" for an int
IntToStr(n) == IF n < 0 THEN <<"-">> \o NatToStr(-n) ELSE NatToStr(n)

\* f"{x}" for a value that may be None
Format(x) == CASE x.t = "none" -> <<"N", "o", "n", "e">>
               [] x.t = "str" -> x.v
               [] x.t = "int" -> IntToStr(x.v)

\* d.get(k, default)
DictGet(d, k, default) == IF k \in DOMAIN d THEN d[k] ELSE default

Whitespace == {" "}

RECURSIVE LStripChars(_, _)
LStripChars(s, cs) == IF s # <<>> /\ Head(s) \in cs THEN LStripChars(Tail(s), cs) ELSE s

RECURSIVE RStripChars(_, _)
RStripChars(s, cs) == IF s # <<>> /\ s[Len(s)] \in cs
                      THEN RStripChars(SubSeq(s, 1, Len(s) - 1), cs) ELSE s

\* str.strip(chars)
StripChars(s, cs) == RStripChars(LStripChars(s, cs), cs)

\* str.strip()
Strip(s) == StripChars(s, Whitespace)

(* -------------------------- weather code table ------------------------ *)

WMO_TEXT ==
    (0 :> <<"C", "l", "e", "a", "r", " ", "s", "k", "y">>) @@
    (1 :> <<"M", "a", "i", "n", "l", "y", " ", "c", "l", "e", "a", "r">>) @@
    (2 :> <<"P", "a", "r", "t", "l", "y", " ", "c", "l", "o", "u", "d", "y">>) @@
    (3 :> <<"O", "v", "e", "r", "c", "a", "s", "t">>) @@
    (45 :> <<"F", "o", "g">>) @@
    (48 :> <<"D", "e", "p", "o", "s", "i", "t", "i", "n", "g", " ", "r", "i", "m", "e", " ", "f", "o", "g">>) @@
    (51 :> <<"L", "i", "g", "h", "t", " ", "d", "r", "i", "z", "z", "l", "e">>) @@
    (53 :> <<"M", "o", "d", "e", "r", "a", "t", "e", " ", "d", "r", "i", "z", "z", "l", "e">>) @@
    (55 :> <<"D", "e", "n", "s", "e", " ", "d", "r", "i", "z", "z", "l", "e">>) @@
    (56 :> <<"L", "i", "g", "h", "t", " ", "f", "r", "e", "e", "z", "i", "n", "g", " ", "d", "r", "i", "z", "z", "l", "e">>) @@
    (57 :> <<"D", "e", "n", "s", "e", " ", "f", "r", "e", "e", "z", "i", "n", "g", " ", "d", "r", "i", "z", "z", "l", "e">>) @@
    (61 :> <<"S", "l", "i", "g", "h", "t", " ", "r", "a", "i", "n">>) @@
    (63 :> <<"M", "o", "d", "e", "r", "a", "t", "e", " ", "r", "a", "i", "n">>) @@
    (65 :> <<"H", "e", "a", "v", "y", " ", "r", "a", "i", "n">>) @@
    (66 :> <<"L", "i", "g", "h", "t", " ", "f", "r", "e", "e", "z", "i", "n", "g", " ", "r", "a", "i", "n">>) @@
    (67 :> <<"H", "e", "a", "v", "y", " ", "f", "r", "e", "e", "z", "i", "n", "g", " ", "r", "a", "i", "n">>) @@
    (71 :> <<"S", "l", "i", "g", "h", "t", " ", "s", "n", "o", "w">>) @@
    (73 :> <<"M", "o", "d", "e", "r", "a", "t", "e", " ", "s", "n", "o", "w">>) @@
    (75 :> <<"H", "e", "a", "v", "y", " ", "s", "n", "o", "w">>) @@
    (77 :> <<"S", "n", "o", "w", " ", "g", "r", "a", "i", "n", "s">>) @@
    (80 :> <<"S", "l", "i", "g", "h", "t", " ", "r", "a", "i", "n", " ", "s", "h", "o", "w", "e", "r", "s">>) @@
    (81 :> <<"M", "o", "d", "e", "r", "a", "t", "e", " ", "r", "a", "i", "n", " ", "s", "h", "o", "w", "e", "r", "s">>) @@
    (82 :> <<"V", "i", "o", "l", "e", "n", "t", " ", "r", "a", "i", "n", " ", "s", "h", "o", "w", "e", "r", "s">>) @@
    (85 :> <<"S", "l", "i", "g", "h", "t", " ", "s", "n", "o", "w", " ", "s", "h", "o", "w", "e", "r", "s">>) @@
    (86 :> <<"H", "e", "a", "v", "y", " ", "s", "n", "o", "w", " ", "s", "h", "o", "w", "e", "r", "s">>) @@
    (95 :> <<"T", "h", "u", "n", "d", "e", "r", "s", "t", "o", "r", "m">>) @@
    (96 :> <<"T", "h", "u", "n", "d", "e", "r", "s", "t", "o", "r", "m", " ", "w", "i", "t", "h", " ", "s", "l", "i", "g", "h", "t", " ", "h", "a", "i", "l">>) @@
    (99 :> <<"T", "h", "u", "n", "d", "e", "r", "s", "t", "o", "r", "m", " ", "w", "i", "t", "h", " ", "h", "e", "a", "v", "y", " ", "h", "a", "i", "l">>)

\* mutant: the fallback drops the code
DescribeNoCode(code) == IF code \in DOMAIN WMO_TEXT THEN WMO_TEXT[code]
                        ELSE <<"W", "M", "O">>

\* WMO_TEXT.get(code, f"WMO {code}")
Describe(code) == IF code \in DOMAIN WMO_TEXT THEN WMO_TEXT[code]
                  ELSE <<"W", "M", "O", " ">> \o IntToStr(code)

(* ------------------------------ _get_json ----------------------------- *)

\* What urlopen meets: a transport failure (urlopen raises, which covers the
\* HTTPError it raises itself for 4xx/5xx), or a response with a status and a body.
Raise(e) == [exc |-> e]
Return(v) == [exc |-> "none", val |-> v]

\* mutant: the status of the response is not looked at
GetJsonNoStatusCheck(resp) ==
    IF resp.fail THEN Raise("RuntimeError")
    ELSE Return(resp.body)

GetJson(resp) ==
    IF resp.fail THEN Raise("RuntimeError")
    ELSE IF resp.status # 200 THEN Raise("RuntimeError")
    ELSE Return(resp.body)

(* ------------------------------- geocode ------------------------------ *)

GeocodeUrl(place, language) ==
    [host |-> "geocoding-api.open-meteo.com", name |-> place, count |-> 1,
     language |-> language, format |-> "json"]

\* geocode() after _get_json returned data
GeocodeResult(d) ==
    LET results == DictGet(d, "results", <<>>) IN
    IF results = <<>> THEN Return(PyNone)
    ELSE LET r == results[1] IN
         IF "latitude" \notin DOMAIN r \/ "longitude" \notin DOMAIN r
         THEN Raise("KeyError")
         ELSE Return([name |-> DictGet(r, "name", PyNone),
                      country |-> DictGet(r, "country", PyNone),
                      lat |-> r.latitude,
                      lon |-> r.longitude,
                      tz |-> DictGet(r, "timezone", "auto")])

\* "not x" for None and for dicts
Falsy(x) == x = PyNone \/ DOMAIN x = {}

(* ---------------------------- fetch_weather --------------------------- *)

TempUnit(unit) == IF unit = "imperial" THEN "fahrenheit" ELSE "celsius"
WindUnit(unit) == IF unit = "imperial" THEN "mph" ELSE "kmh"

\* mutant: only the upper end is clamped
ForecastDaysNoFloor(days) == Min(days, MaxForecastDays)

ForecastDays(days) == Max(MinForecastDays, Min(days, MaxForecastDays))

FetchWeatherUrl(lat, lon, days, unit, tz) ==
    [host |-> "api.open-meteo.com", latitude |-> lat, longitude |-> lon,
     current_weather |-> "true",
     daily |-> "temperature_2m_max,temperature_2m_min,precipitation_probability_max",
     timezone |-> IF tz = "" THEN "auto" ELSE tz,
     forecast_days |-> ForecastDays(days),
     temperature_unit |-> TempUnit(unit),
     wind_speed_unit |-> WindUnit(unit)]

(* ---------------------------- format_current -------------------------- *)

\* datetime.fromisoformat(t).strftime("%Y-%m-%d %H:%M"), or str(t) when that raises
IsoTimes == ("2024-05-01T12:00" :> "2024-05-01 12:00")
When(time_str) == IF time_str \in DOMAIN IsoTimes THEN IsoTimes[time_str] ELSE time_str

CurrentTempSuffix(unit) == IF unit = "imperial" THEN "°F" ELSE "°C"
CurrentWindSuffix(unit) == IF unit = "imperial" THEN "mph" ELSE "km/h"

FormatCurrent(current, unit) ==
    IF Falsy(current) THEN [kind |-> "current_nodata"]
    ELSE LET code == DictGet(current, "weathercode", DefaultCode) IN
         [kind |-> "current",
          when |-> When(DictGet(current, "time", "None")),
          desc |-> Describe(code),
          temp |-> DictGet(current, "temperature", PyNone),
          u_temp |-> CurrentTempSuffix(unit),
          wind |-> DictGet(current, "windspeed", PyNone),
          u_wind |-> CurrentWindSuffix(unit)]

(* ----------------------------- format_daily --------------------------- *)

\* mutant: the two suffixes are swapped
DailyTempSuffixSwapped(unit) == IF unit = "imperial" THEN "°C" ELSE "°F"

DailyTempSuffix(unit) == IF unit = "imperial" THEN "°F" ELSE "°C"

\* mutant: the bounds test is off by one
PopGuardOffByOne(pop, i) == i <= Len(pop)

\* the bounds test of the rain clause: i < len(pop)   (i is the 0-based Python index)
PopGuard(pop, i) == i < Len(pop)

\* range(min(days, len(dates))) runs i over 0 .. LoopBound - 1
LoopBound(days, dates) == Min(days, Len(dates))

\* The loop from index i on.  reads collects every subscription a[i] the body
\* evaluates, as <<array, index>>, in the order Python evaluates them: the
\* f-string's dates[i], tmin[i], tmax[i], then pop[i] when the bounds test
\* passed.  A subscription at or beyond the array's length raises IndexError.
RECURSIVE DailyLoop(_, _, _, _, _, _, _, _, _)
DailyLoop(dates, tmin, tmax, pop, u, i, n, lines, reads) ==
    IF i >= n THEN [exc |-> "none", lines |-> lines, reads |-> reads]
    ELSE LET r1 == reads \cup {<<"time", i>>}
             r2 == r1 \cup {<<"temperature_2m_min", i>>}
             r3 == r2 \cup {<<"temperature_2m_max", i>>}
             r4 == r3 \cup {<<"precipitation_probability_max", i>>}
             failed(r) == [exc |-> "IndexError", lines |-> lines, reads |-> r]
             day(rain) == [kind |-> "day", date |-> dates[i + 1],
                           tmin |-> tmin[i + 1], tmax |-> tmax[i + 1],
                           u_temp |-> u, rain |-> rain]
         IN  IF i >= Len(dates) THEN failed(r1)
             ELSE IF i >= Len(tmin) THEN failed(r2)
             ELSE IF i >= Len(tmax) THEN failed(r3)
             ELSE IF ~PopGuard(pop, i)
                  THEN DailyLoop(dates, tmin, tmax, pop, u, i + 1, n,
                                 Append(lines, day(<<>>)), r3)
             ELSE IF i >= Len(pop) THEN failed(r4)
             ELSE DailyLoop(dates, tmin, tmax, pop, u, i + 1, n,
                            Append(lines, day(IF pop[i + 1] # PyNone
                                              THEN <<pop[i + 1]>> ELSE <<>>)),
                            r4)

FormatDaily(daily, unit, days) ==
    IF Falsy(daily)
    THEN [exc |-> "none", lines |-> <<[kind |-> "forecast_nodata"]>>, reads |-> {}]
    ELSE LET dates == DictGet(daily, "time", <<>>)
             tmax == DictGet(daily, "temperature_2m_max", <<>>)
             tmin == DictGet(daily, "temperature_2m_min", <<>>)
             pop == DictGet(daily, "precipitation_probability_max", <<>>)
         IN  DailyLoop(dates, tmin, tmax, pop, DailyTempSuffix(unit), 0,
                       LoopBound(days, dates), <<[kind |-> "forecast_header"]>>, {})

(* -------------------------------- main -------------------------------- *)

\* f"{where['name']}, {where.get('country','')}".strip().strip(',')
Header(w) ==
    StripChars(Strip(Format(w.name) \o <<",", " ">>
                     \o Format(DictGet(w, "country", PyStr(<<>>)))),
               {","})

\* the process status of "raise SystemExit(main())": main's return value, the
\* status 2 of argparse's own SystemExit, or 1 for an uncaught exception
ExitStatus ==
    IF returned # <<>> THEN returned[1]
    ELSE IF raised = "SystemExit" THEN 2
    ELSE 1

(* ------------------------------- inputs ------------------------------- *)

Places == {<<"B", "o", "n", "n">>, <<"Z", "z", "q">>}
Days == (0 - DaysBelow) .. (MaxForecastDays + DaysAbove)
Units == {"metric", "imperial"}
Langs == {"en"}

Optional(key, values) == {<<>>} \cup {(key :> v) : v \in values}

GeoBase == [name |-> PyStr(<<"B", "o", "n", "n">>), latitude |-> 50, longitude |-> 7]

GeoResults ==
    {GeoBase @@ c @@ t : c \in Optional("country", {PyStr(<<"D", "E">>)}),
                         t \in Optional("timezone", {"Europe/Berlin"})}
    \cup {[name |-> PyStr(<<"B", "o", "n", "n">>), longitude |-> 7]}

Failures == {[fail |-> TRUE], [fail |-> FALSE, status |-> 204, body |-> PyNone]}
Ok(body) == [fail |-> FALSE, status |-> 200, body |-> body]

GeocodeResponses ==
    Failures
    \cup {Ok([generationtime_ms |-> 1]), Ok([generationtime_ms |-> 1, results |-> <<>>])}
    \cup {Ok([generationtime_ms |-> 1, results |-> <<r>>]) : r \in GeoResults}

Dates(k) == [i \in 1..k |-> [year |-> 2024, month |-> 5, day |-> i]]
TMins(k) == [i \in 1..k |-> PyInt(i)]
TMaxs(k) == [i \in 1..k |-> PyInt(10 + i)]
Pops(n) == UNION {[1..k -> {PyNone, PyInt(40)}] : k \in 0..n}

Dailies(n) ==
    {[time |-> Dates(a), temperature_2m_max |-> TMaxs(b),
      temperature_2m_min |-> TMins(c), precipitation_probability_max |-> p] :
        a \in 0..n, b \in 0..n, c \in 0..n, p \in Pops(n)}
    \cup {[time |-> Dates(n)]}

Current(code, time) ==
    [time |-> time, weathercode |-> code, temperature |-> PyInt(21), windspeed |-> PyInt(9)]

RunCurrents == {Current(3, "2024-05-01T12:00"), Current(14, "2024-05-01T12:00")}

ForecastResponses ==
    Failures
    \cup {Ok([latitude |-> 50] @@ c @@ d) : c \in Optional("current_weather", RunCurrents),
                                          d \in Optional("daily", Dailies(RunLen))}

(* ------------------------------- the run ------------------------------ *)

Init ==
    /\ pc = "start"
    /\ args = PyNone
    /\ where = PyNone
    /\ data = PyNone
    /\ inflight = {}
    /\ requests = <<>>
    /\ responses = <<>>
    /\ stdout = <<>>
    /\ stderr = <<>>
    /\ returned = <<>>
    /\ raised = "none"
    /\ events = <<>>
    /\ call = PyNone
    /\ result = PyNone

\* parser.parse_args(argv) accepts the command line
ParseArgsOk ==
    /\ pc = "start"
    /\ \E place \in Places, days \in Days, unit \in Units, lang \in Langs :
         args' = [place |-> place, days |-> days, unit |-> unit, lang |-> lang]
    /\ pc' = "parsed"
    /\ UNCHANGED <<responses, where, data, inflight, requests, stdout, stderr, returned, raised,
                   events, call, result>>

\* parser.parse_args(argv) rejects it: usage on stderr and SystemExit(2)
ParseArgsReject ==
    /\ pc = "start"
    /\ stderr' = Append(stderr, [kind |-> "usage"])
    /\ raised' = "SystemExit"
    /\ pc' = "done"
    /\ UNCHANGED <<responses, args, where, data, inflight, requests, stdout, returned, events,
                   call, result>>

\* geocode(): urlopen sends the search request
GeocodeRequest ==
    /\ pc = "parsed"
    /\ LET url == GeocodeUrl(args.place, args.lang) IN
         /\ inflight' = inflight \cup {url}
         /\ requests' = Append(requests, url)
    /\ events' = Append(events, "geocode_request")
    /\ pc' = "geocoding"
    /\ UNCHANGED <<responses, args, where, data, stdout, stderr, returned, raised, call, result>>

\* geocode(): the call ends, _get_json and the rest of geocode run
GeocodeResponse ==
    /\ pc = "geocoding"
    /\ \E resp \in GeocodeResponses :
         LET j == GetJson(resp)
             g == IF j.exc = "none" THEN GeocodeResult(j.val) ELSE j
         IN  /\ responses' = Append(responses, resp)
             /\ IF g.exc = "none"
                THEN where' = g.val /\ pc' = "geocoded" /\ raised' = raised
                ELSE where' = where /\ pc' = "done" /\ raised' = g.exc
    /\ inflight' = {}
    /\ events' = Append(events, "geocode_response")
    /\ UNCHANGED <<args, data, requests, stdout, stderr, returned, call, result>>

\* mutant: the diagnostic goes to stdout
NotFoundToStdout ==
    /\ pc = "geocoded"
    /\ Falsy(where)
    /\ stdout' = Append(stdout, [kind |-> "not_found", place |-> args.place])
    /\ returned' = <<2>>
    /\ pc' = "done"
    /\ events' = Append(events, "return")
    /\ UNCHANGED <<responses, args, where, data, inflight, requests, stderr, raised,
                   call, result>>

\* if not where: the diagnostic and return 2
NotFound ==
    /\ pc = "geocoded"
    /\ Falsy(where)
    /\ stderr' = Append(stderr, [kind |-> "not_found", place |-> args.place])
    /\ returned' = <<2>>
    /\ pc' = "done"
    /\ events' = Append(events, "return")
    /\ UNCHANGED <<responses, args, where, data, inflight, requests, stdout, raised,
                   call, result>>

\* fetch_weather(): urlopen sends the forecast request
ForecastRequest ==
    /\ pc = "geocoded"
    /\ ~Falsy(where)
    /\ LET url == FetchWeatherUrl(where.lat, where.lon, args.days, args.unit, where.tz) IN
         /\ inflight' = inflight \cup {url}
         /\ requests' = Append(requests, url)
    /\ events' = Append(events, "forecast_request")
    /\ pc' = "fetching"
    /\ UNCHANGED <<responses, args, where, data, stdout, stderr, returned, raised, call, result>>

\* fetch_weather(): the call ends and _get_json runs
ForecastResponse ==
    /\ pc = "fetching"
    /\ \E resp \in ForecastResponses :
         LET j == GetJson(resp) IN
         /\ responses' = Append(responses, resp)
         /\ IF j.exc = "none"
            THEN data' = j.val /\ pc' = "fetched" /\ raised' = raised
            ELSE data' = data /\ pc' = "done" /\ raised' = j.exc
    /\ inflight' = {}
    /\ events' = Append(events, "forecast_response")
    /\ UNCHANGED <<args, where, requests, stdout, stderr, returned, call, result>>

\* mutant: the header is printed before the forecast is fetched
PrintHeaderBeforeFetch ==
    /\ pc = "geocoded"
    /\ ~Falsy(where)
    /\ stdout = <<>>
    /\ stdout' = Append(stdout, [kind |-> "header", header |-> Header(where),
                                 lat |-> where.lat, lon |-> where.lon])
    /\ events' = Append(events, "print_header")
    /\ UNCHANGED <<pc, responses, args, where, data, inflight, requests, stderr,
                   returned, raised, call, result>>

\* print(f"{header}  (lat ..., lon ...)")
PrintHeader ==
    /\ pc = "fetched"
    /\ stdout' = Append(stdout, [kind |-> "header", header |-> Header(where),
                                 lat |-> where.lat, lon |-> where.lon])
    /\ events' = Append(events, "print_header")
    /\ pc' = "printed_header"
    /\ UNCHANGED <<responses, args, where, data, inflight, requests, stderr, returned, raised,
                   call, result>>

\* print(format_current(data.get("current_weather"), args.unit))
PrintCurrent ==
    /\ pc = "printed_header"
    /\ stdout' = Append(stdout,
                        FormatCurrent(DictGet(data, "current_weather", PyNone), args.unit))
    /\ events' = Append(events, "print_current")
    /\ pc' = "printed_current"
    /\ UNCHANGED <<responses, args, where, data, inflight, requests, stderr, returned, raised,
                   call, result>>

\* print(format_daily(data.get("daily"), args.unit, args.days))
PrintDaily ==
    /\ pc = "printed_current"
    /\ LET r == FormatDaily(DictGet(data, "daily", PyNone), args.unit, args.days) IN
         IF r.exc = "none"
         THEN /\ stdout' = stdout \o r.lines
              /\ events' = Append(events, "print_daily")
              /\ pc' = "printed_daily"
              /\ raised' = raised
         ELSE /\ stdout' = stdout
              /\ events' = events
              /\ pc' = "done"
              /\ raised' = r.exc
    /\ UNCHANGED <<responses, args, where, data, inflight, requests, stderr, returned,
                   call, result>>

\* return 0
ReturnZero ==
    /\ pc = "printed_daily"
    /\ returned' = <<0>>
    /\ events' = Append(events, "return")
    /\ pc' = "done"
    /\ UNCHANGED <<responses, args, where, data, inflight, requests, stdout, stderr, raised,
                   call, result>>

Next ==
    \/ ParseArgsOk
    \/ ParseArgsReject
    \/ GeocodeRequest
    \/ GeocodeResponse
    \/ NotFound
    \/ ForecastRequest
    \/ ForecastResponse
    \/ PrintHeader
    \/ PrintCurrent
    \/ PrintDaily
    \/ ReturnZero

Spec == Init /\ [][Next]_vars

(* ------------------ format_daily and format_current alone ------------- *)

Idle ==
    /\ args = PyNone
    /\ where = PyNone
    /\ data = PyNone
    /\ inflight = {}
    /\ requests = <<>>
    /\ responses = <<>>
    /\ stdout = <<>>
    /\ stderr = <<>>
    /\ returned = <<>>
    /\ raised = "none"
    /\ events = <<>>
    /\ result = PyNone

Codes == (0 - CodesBelow) .. (HighestCode + CodesAbove)
Times == {"2024-05-01T12:00", "yesterday"}

Currents ==
    {PyNone}
    \cup {Current(code, t) : code \in Codes, t \in Times}
    \cup {[time |-> t, temperature |-> PyInt(21), windspeed |-> PyInt(9)] : t \in Times}

InitDaily ==
    /\ pc = "call_format_daily"
    /\ call \in [daily : {PyNone} \cup Dailies(MaxLen), unit : Units, days : Days]
    /\ Idle

InitCurrent ==
    /\ pc = "call_format_current"
    /\ call \in [current : Currents, unit : Units]
    /\ Idle

CallFormatDaily ==
    /\ pc = "call_format_daily"
    /\ result' = FormatDaily(call.daily, call.unit, call.days)
    /\ pc' = "called"
    /\ UNCHANGED <<args, where, data, inflight, requests, responses, stdout, stderr,
                   returned, raised, events, call>>

CallFormatCurrent ==
    /\ pc = "call_format_current"
    /\ result' = FormatCurrent(call.current, call.unit)
    /\ pc' = "called"
    /\ UNCHANGED <<args, where, data, inflight, requests, responses, stdout, stderr,
                   returned, raised, events, call>>

SpecDaily == InitDaily /\ [][CallFormatDaily]_vars

SpecCurrent == InitCurrent /\ [][CallFormatCurrent]_vars

(* ------------------------------ properties ---------------------------- *)

Range(s) == {s[i] : i \in 1..Len(s)}

ForecastHost == "api.open-meteo.com"
ForecastRequests == {requests[i] : i \in {k \in 1..Len(requests) : requests[k].host = ForecastHost}}

DayLines(lines) == {k \in 1..Len(lines) : lines[k].kind = "day"}

GeocodeFoundNothing ==
    /\ "geocode_response" \in Range(events)
    /\ raised = "none"
    /\ where = PyNone

\* C1: when geocode returns no location the run prints the diagnostic naming
\* the place to stderr, returns 2, sends no forecast request and prints
\* nothing to stdout; main returns 2 on no other path.
C1_NotFoundReturnsTwo ==
    /\ GeocodeFoundNothing =>
         /\ stdout = <<>>
         /\ ForecastRequests = {}
         /\ pc = "done" =>
              /\ returned = <<2>>
              /\ ExitStatus = 2
              /\ stderr = <<[kind |-> "not_found", place |-> args.place]>>
    /\ returned = <<2>> => GeocodeFoundNothing

C1_Witness ==
    /\ pc = "done"
    /\ GeocodeFoundNothing
    /\ returned = <<2>>
    /\ responses[1].body = [generationtime_ms |-> 1]

\* C2: the forecast_days parameter of every forecast request lies in 1..16:
\* 1 when --days is below 1, 16 when it is above 16, --days itself otherwise.
C2_ForecastDaysClamped ==
    \A r \in ForecastRequests :
        /\ r.forecast_days \in 1..16
        /\ args.days < 1 => r.forecast_days = 1
        /\ args.days > 16 => r.forecast_days = 16
        /\ args.days \in 1..16 => r.forecast_days = args.days

C2_Witness ==
    /\ args # PyNone
    /\ args.days < 0
    /\ \E r \in ForecastRequests : r.forecast_days = 1

\* C3: in a run the units requested from the forecast service and the
\* suffixes printed by format_current and format_daily agree with --unit:
\* metric is celsius/kmh and "°C", "km/h"; imperial is fahrenheit/mph and
\* "°F", "mph".
C3_UnitsAgree ==
    LET metric == args.unit = "metric"
        imperial == args.unit = "imperial"
    IN  /\ \A r \in ForecastRequests :
             /\ metric => r.temperature_unit = "celsius" /\ r.wind_speed_unit = "kmh"
             /\ imperial => r.temperature_unit = "fahrenheit" /\ r.wind_speed_unit = "mph"
        /\ \A k \in 1..Len(stdout) :
             /\ stdout[k].kind \in {"current", "day"} =>
                  /\ metric => stdout[k].u_temp = "°C"
                  /\ imperial => stdout[k].u_temp = "°F"
             /\ stdout[k].kind = "current" =>
                  /\ metric => stdout[k].u_wind = "km/h"
                  /\ imperial => stdout[k].u_wind = "mph"
        /\ stdout # <<>> => (metric \/ imperial) /\ ForecastRequests # {}

C3_Witness ==
    /\ returned = <<0>>
    /\ args.unit = "imperial"
    /\ \E k \in 1..Len(stdout) : stdout[k].kind = "current"
    /\ \E k \in 1..Len(stdout) : stdout[k].kind = "day"

\* the arrays format_daily takes from the payload of the call
CallDates == IF Falsy(call.daily) THEN <<>> ELSE DictGet(call.daily, "time", <<>>)
CallTMin == IF Falsy(call.daily) THEN <<>> ELSE DictGet(call.daily, "temperature_2m_min", <<>>)
CallTMax == IF Falsy(call.daily) THEN <<>> ELSE DictGet(call.daily, "temperature_2m_max", <<>>)
CallPop ==
    IF Falsy(call.daily) THEN <<>>
    ELSE DictGet(call.daily, "precipitation_probability_max", <<>>)

\* the rain clause is on day i only when i is within pop and pop[i] is not
\* null, and pop is never read at or beyond its length
RainClauseGuarded ==
    /\ \A k \in DayLines(result.lines) :
         result.lines[k].rain # <<>> =>
             /\ k - 1 <= Len(CallPop)
             /\ CallPop[k - 1] # PyNone
             /\ result.lines[k].rain = <<CallPop[k - 1]>>
    /\ \A rd \in result.reads :
         rd[1] = "precipitation_probability_max" => rd[2] < Len(CallPop)

\* C4 as stated: format_daily renders at most min(days, len(dates)) day
\* lines, with the rain clause guarded as above.
C4_Original ==
    (pc = "called" /\ ~Falsy(call.daily)) =>
        /\ Cardinality(DayLines(result.lines)) <= Min(call.days, Len(CallDates))
        /\ RainClauseGuarded

\* C4 as amended: format_daily renders at most max(0, min(days, len(dates)))
\* day lines (none for a days below 1), and the rain clause is on day i only
\* when i is within the precipitation sequence and that entry is not null;
\* the precipitation sequence is never read at or beyond its length.
C4_DailyLinesBounded ==
    pc = "called" =>
        /\ Cardinality(DayLines(result.lines)) <= Max(0, Min(call.days, Len(CallDates)))
        /\ RainClauseGuarded

C4_Witness ==
    /\ pc = "called"
    /\ result.exc = "none"
    /\ Cardinality(DayLines(result.lines)) = 2
    /\ Len(CallPop) = 1
    /\ result.lines[2].rain # <<>>
    /\ result.lines[3].rain = <<>>

\* C5: with date, min and max sequences of different lengths format_daily
\* never subscripts past the shortest of the three, so rendering does not
\* fail with an out-of-range access.
C5_NeverPastShortest ==
    (/\ pc = "called"
     /\ Cardinality({Len(CallDates), Len(CallTMin), Len(CallTMax)}) > 1) =>
        /\ result.exc # "IndexError"
        /\ \A rd \in result.reads :
             rd[1] \in {"time", "temperature_2m_min", "temperature_2m_max"} =>
                 rd[2] < Min(Len(CallDates), Min(Len(CallTMin), Len(CallTMax)))

HttpFailed ==
    \E i \in 1..Len(responses) : responses[i].fail \/ responses[i].status # 200

\* C6: when either HTTP call fails in transport or answers with a status
\* other than 200, RuntimeError is raised and reaches the process boundary:
\* no not-found outcome, main returns nothing, the exit status is neither 0
\* nor 2, and nothing is printed to stdout.
C6_NetworkErrorPropagates ==
    HttpFailed =>
        /\ raised = "RuntimeError"
        /\ pc = "done"
        /\ returned = <<>>
        /\ ExitStatus \notin {0, 2}
        /\ stdout = <<>>
        /\ stderr = <<>>

C6_Witness ==
    /\ pc = "done"
    /\ Len(responses) = 2
    /\ ~responses[2].fail
    /\ responses[2].status = 204
    /\ raised = "RuntimeError"

\* C7: the header is the location name alone when the geocoding result has
\* no country (no dangling comma, no placeholder text), and
\* "<name>, <country>" when it has one.
C7_HeaderTrimmed ==
    \A k \in 1..Len(stdout) :
        stdout[k].kind = "header" =>
            stdout[k].header =
                IF where.country = PyNone THEN where.name.v
                ELSE where.name.v \o <<",", " ">> \o where.country.v

RECURSIVE StrToNat(_)
StrToNat(s) ==
    IF s = <<>> THEN 0
    ELSE 10 * StrToNat(SubSeq(s, 1, Len(s) - 1))
         + (CHOOSE d \in 0..9 : Digit(d) = s[Len(s)])

StrToInt(s) == IF Head(s) = "-" THEN 0 - StrToNat(Tail(s)) ELSE StrToNat(s)

CallCode == DictGet(call.current, "weathercode", DefaultCode)

\* C8: the description format_current prints is the table's entry when the
\* weather code is in WMO_TEXT, and otherwise "WMO " followed by that exact
\* integer; 3 gives "Overcast" and 14 gives "WMO 14".
C8_DescriptionLookup ==
    (pc = "called" /\ ~Falsy(call.current)) =>
        /\ result.kind = "current"
        /\ CallCode \in DOMAIN WMO_TEXT => result.desc = WMO_TEXT[CallCode]
        /\ CallCode \notin DOMAIN WMO_TEXT =>
             /\ Len(result.desc) > 4
             /\ SubSeq(result.desc, 1, 4) = <<"W", "M", "O", " ">>
             /\ StrToInt(SubSeq(result.desc, 5, Len(result.desc))) = CallCode
        /\ CallCode = 3 => result.desc = <<"O", "v", "e", "r", "c", "a", "s", "t">>
        /\ CallCode = 14 => result.desc = <<"W", "M", "O", " ", "1", "4">>

C8_Witness ==
    /\ pc = "called"
    /\ call.current # PyNone
    /\ CallCode = 14
    /\ result.desc = <<"W", "M", "O", " ", "1", "4">>

IsPrefix(s, t) == Len(s) <= Len(t) /\ SubSeq(t, 1, Len(s)) = s

FullRun ==
    <<"geocode_request", "geocode_response", "forecast_request", "forecast_response",
      "print_header", "print_current", "print_daily", "return">>

NotFoundRun == <<"geocode_request", "geocode_response", "return">>

\* C9: the steps of a run occur in the order geocode request, geocode
\* response, forecast request, forecast response, render; the forecast
\* request follows a geocoding that returned a location; at most one request
\* is in flight; nothing is on stdout before the forecast response; 0 is
\* returned only after header, current line and daily block were printed in
\* that order.
C9_Sequential ==
    /\ IsPrefix(events, FullRun) \/ IsPrefix(events, NotFoundRun)
    /\ Cardinality(inflight) <= 1
    /\ ForecastRequests # {} => ~Falsy(where) /\ responses # <<>>
    /\ Len(requests) <= Len(responses) + 1
    /\ stdout # <<>> => Len(responses) = 2
    /\ returned = <<0>> =>
         /\ Len(stdout) >= 3
         /\ stdout[1].kind = "header"
         /\ stdout[2].kind \in {"current", "current_nodata"}
         /\ stdout[3].kind \in {"forecast_header", "forecast_nodata"}
         /\ \A k \in 4..Len(stdout) : stdout[k].kind = "day"

C9_Witness ==
    /\ returned = <<0>>
    /\ events = FullRun
    /\ Len(stdout) = 4

RunDaily == DictGet(data, "daily", PyNone)

\* C10: the day count main uses as format_daily's loop bound is the clamped
\* value sent as forecast_days, so when the service answers with at least
\* that many daily entries the daily block has exactly that many day lines.
C10_DisplayUsesClampedDays ==
    (/\ returned = <<0>>
     /\ ~Falsy(RunDaily)
     /\ \A key \in {"time", "temperature_2m_min", "temperature_2m_max"} :
          /\ key \in DOMAIN RunDaily
          /\ Len(RunDaily[key]) >= ForecastDays(args.days))
    => \A r \in ForecastRequests :
          Cardinality(DayLines(stdout)) = r.forecast_days

====
